---- MODULE Spec2Model ----
(***************************************************************************)
(* tuisulog: a terminal viewer of /var/log/auth.log.                       *)
(*                                                                         *)
(* The module models src/src/app.rs (struct App, App::new, load_logs, the  *)
(* event loop App::run, update_log_information) and src/src/view.rs        *)
(* (get_page, create_recent_commands_paragraph, create_spans,              *)
(* get_sudoers).  src/src/main.rs is the earlier single-file version of    *)
(* the same program; its update_logs, calculate_subset, next and prev      *)
(* carry the same arithmetic as the functions modelled here.               *)
(*                                                                         *)
(* Texts are TLA+ strings; Len, SubSeq and \o act on them as on Rust's     *)
(* ASCII strings (one byte per character).                                 *)
(*                                                                         *)
(* Five specifications share the variables:                                *)
(*   Spec      the event loop of App::run over a constructed App           *)
(*   SpecGroup the same loop while /etc/group changes between redraws      *)
(*   SpecLoad  App::new: the ingestion of the log file                     *)
(*   SpecSpans create_spans over one line and the loaded usernames         *)
(*   SpecCommands the Frequency pane over the table of a constructed App   *)
(***************************************************************************)
EXTENDS Integers, Sequences, FiniteSets, TLC

VARIABLES
    app,              \* struct App (app.rs:15-25), a record
    set_start_page,   \* the local of App::run (app.rs:45)
    pc,               \* where the process is
    key,              \* the last event event::read() returned
    fault,            \* the panic message, "none" while the process lives
    page,             \* the lines the last redraw handed to the log pane
    overflow_checks,  \* build profile: TRUE = debug (overflow panics), FALSE = release (wraps)
    file,             \* the lines of /var/log/auth.log
    group_file,       \* the lines of /etc/group
    log,              \* the line given to create_spans
    sudoers,          \* the usernames get_sudoers returned
    spans,            \* the spans create_spans built for the page <<log>>
    loaded            \* the locals of load_logs: logs, sudo_logs, commands

vars == <<app, set_start_page, pc, key, fault, page, overflow_checks,
          file, group_file, log, sudoers, spans, loaded>>

-----------------------------------------------------------------------------
(* Bounds of the model *)

\* most lines of a generated log file in Spec
MaxLogs == 11
\* largest display height a redraw may see
MaxHeight == 4
\* page-down presses are no longer taken once page_index reaches this value
MaxPageIndex == 12
\* width of usize in the model (the targets have 32 or 64)
UsizeBits == 16
\* most lines of a log file in SpecLoad
MaxFileLines == 3
\* most lines of a group file in SpecSpans
MaxGroupLines == 2
\* most pieces a line given to create_spans is put together from
MaxPieces == 5

UsizeMod == 2 ^ UsizeBits

\* outcome of an arithmetic operation that panicked
Overflow == 0 - 1

NoFault == "none"

-----------------------------------------------------------------------------
(* Rust primitives *)

\* usize subtraction: panics under overflow checks, wraps without them
usize_sub(a, b, checks) ==
    IF a >= b THEN a - b
    ELSE IF checks THEN Overflow ELSE a - b + UsizeMod

usize_add(a, b, checks) ==
    IF a + b < UsizeMod THEN a + b
    ELSE IF checks THEN Overflow ELSE (a + b) % UsizeMod

usize_mul(a, b, checks) ==
    IF a * b < UsizeMod THEN a * b
    ELSE IF checks THEN Overflow ELSE (a * b) % UsizeMod

\* str::contains
Contains(s, p) ==
    \E i \in 1..(Len(s) - Len(p) + 1) : SubSeq(s, i, i + Len(p) - 1) = p

\* str::find: the 0-based index of the first occurrence, Overflow (None) without one
Find(s, p) ==
    LET hits == {i \in 1..(Len(s) - Len(p) + 1) : SubSeq(s, i, i + Len(p) - 1) = p}
    IN IF hits = {} THEN Overflow
       ELSE (CHOOSE i \in hits : \A j \in hits : i <= j) - 1

\* str::starts_with
StartsWith(s, p) == Len(p) <= Len(s) /\ SubSeq(s, 1, Len(p)) = p

\* s[from..], from 0-based
StrFrom(s, from) == SubSeq(s, from + 1, Len(s))

-----------------------------------------------------------------------------
(* app.rs: App::new and load_logs *)

titles == <<"ALL", "SUDO", "COMMANDS">>

command_text == "COMMAND="

\* the test of app.rs:122: the line is sudo-related
is_sudo_related_NoNoiseFilter(line) == Contains(line, "sudo:")

is_sudo_related(line) == Contains(line, "sudo:") /\ ~Contains(line, "pam_unix")

\* load_line that sets the count of a command to 1 whenever it is seen
load_line_CountStuck(acc, line) ==
    IF acc.fault # NoFault THEN acc
    ELSE IF is_sudo_related(line)
    THEN LET command_index == Find(line, command_text)
         IN IF command_index = Overflow
            THEN [acc EXCEPT !.fault = "called Option::unwrap on a None value"]
            ELSE LET command == StrFrom(line, command_index + Len(command_text))
                 IN [acc EXCEPT
                       !.commands = [c \in DOMAIN acc.commands \cup {command} |->
                                       IF c = command THEN 1 ELSE acc.commands[c]],
                       !.sudo_logs = Append(acc.sudo_logs, line),
                       !.logs = Append(acc.logs, line)]
    ELSE [acc EXCEPT !.logs = Append(acc.logs, line)]

\* the body of the loop of load_logs for one line, on the accumulator
\* [logs, sudo_logs, commands, fault]
load_line(acc, line) ==
    IF acc.fault # NoFault THEN acc
    ELSE IF is_sudo_related(line)
    THEN LET command_index == Find(line, command_text)
         IN IF command_index = Overflow
            THEN [acc EXCEPT !.fault = "called Option::unwrap on a None value"]
            ELSE LET command == StrFrom(line, command_index + Len(command_text))
                     n == IF command \in DOMAIN acc.commands
                          THEN acc.commands[command] + 1 ELSE 1
                 IN [acc EXCEPT
                       !.commands = [c \in DOMAIN acc.commands \cup {command} |->
                                       IF c = command THEN n ELSE acc.commands[c]],
                       !.sudo_logs = Append(acc.sudo_logs, line),
                       !.logs = Append(acc.logs, line)]
    ELSE [acc EXCEPT !.logs = Append(acc.logs, line)]

RECURSIVE load_from(_, _, _)
load_from(acc, lines, i) ==
    IF i > Len(lines) THEN acc
    ELSE load_from(load_line(acc, lines[i]), lines, i + 1)

\* load_logs over the lines of the log file
load_logs(lines) ==
    load_from([logs |-> <<>>, sudo_logs |-> <<>>, commands |-> <<>>,
               fault |-> NoFault], lines, 1)

\* App::new on the result of load_logs
AppNew(l) ==
    [logs |-> l.logs,
     num_logs |-> 0,
     sudo_logs |-> l.sudo_logs,
     commands |-> l.commands,
     titles |-> titles,
     tab_index |-> 0,
     page_index |-> 0,
     num_pages |-> 0,
     logs_per_page |-> 0]

\* the App before construction
NoApp == AppNew([logs |-> <<>>, sudo_logs |-> <<>>, commands |-> <<>>])

-----------------------------------------------------------------------------
(* app.rs: navigation and recomputation *)

next(a) == [a EXCEPT !.tab_index = (a.tab_index + 1) % Len(a.titles)]

\* prev without the wrap to the last tab
prev_Saturating(a) ==
    IF a.tab_index > 0 THEN [a EXCEPT !.tab_index = a.tab_index - 1] ELSE a

prev(a) ==
    IF a.tab_index > 0
    THEN [a EXCEPT !.tab_index = a.tab_index - 1]
    ELSE [a EXCEPT !.tab_index = Len(a.titles) - 1]

\* update_log_information with the page count rounded down
update_log_information_Floor(a, height) ==
    LET a1 == [a EXCEPT !.logs_per_page = height,
                        !.num_logs = IF a.tab_index = 0 THEN Len(a.logs)
                                     ELSE Len(a.sudo_logs)]
    IN IF a1.logs_per_page = 0
       THEN [app |-> a1,
             fault |-> "attempt to calculate the remainder with a divisor of zero"]
       ELSE [app |-> [a1 EXCEPT !.num_pages = a1.num_logs \div a1.logs_per_page],
             fault |-> NoFault]

\* update_log_information: [app, fault]
update_log_information(a, height) ==
    LET a1 == [a EXCEPT !.logs_per_page = height,
                        !.num_logs = IF a.tab_index = 0 THEN Len(a.logs)
                                     ELSE Len(a.sudo_logs)]
    IN IF a1.logs_per_page = 0
       THEN [app |-> a1,
             fault |-> "attempt to calculate the remainder with a divisor of zero"]
       ELSE [app |-> [a1 EXCEPT !.num_pages =
                         IF a1.num_logs % a1.logs_per_page = 0
                         THEN a1.num_logs \div a1.logs_per_page
                         ELSE (a1.num_logs \div a1.logs_per_page) + 1],
             fault |-> NoFault]

\* the redraw without the start-page reset
start_page_KeepsIndex(a, ssp, checks) ==
    [app |-> a, set_start_page |-> FALSE, fault |-> NoFault]

\* the start-page reset taken at every redraw, whatever set_start_page holds
start_page_EveryRedraw(a, ssp, checks) ==
    LET last_page == usize_sub(a.num_pages, 1, checks)
    IN IF last_page = Overflow
       THEN [app |-> a, set_start_page |-> ssp,
             fault |-> "attempt to subtract with overflow"]
       ELSE [app |-> [a EXCEPT !.page_index = last_page],
             set_start_page |-> FALSE, fault |-> NoFault]

\* the start-page reset of the redraw (app.rs:57-60): [app, set_start_page, fault]
start_page(a, ssp, checks) ==
    IF ~ssp THEN [app |-> a, set_start_page |-> ssp, fault |-> NoFault]
    ELSE LET last_page == usize_sub(a.num_pages, 1, checks)
         IN IF last_page = Overflow
            THEN [app |-> a, set_start_page |-> ssp,
                  fault |-> "attempt to subtract with overflow"]
            ELSE [app |-> [a EXCEPT !.page_index = last_page],
                  set_start_page |-> FALSE, fault |-> NoFault]

\* KeyCode::Up (app.rs:70-74)
page_up(a) ==
    IF a.page_index # 0 THEN [a EXCEPT !.page_index = a.page_index - 1] ELSE a

\* KeyCode::Down compared with num_pages instead of num_pages - 1
page_down_PastLast(a, checks) ==
    IF a.page_index # a.num_pages
    THEN [app |-> [a EXCEPT !.page_index = a.page_index + 1], fault |-> NoFault]
    ELSE [app |-> a, fault |-> NoFault]

\* KeyCode::Down (app.rs:75-79): [app, fault]
page_down(a, checks) ==
    LET last_page == usize_sub(a.num_pages, 1, checks)
    IN IF last_page = Overflow
       THEN [app |-> a, fault |-> "attempt to subtract with overflow"]
       ELSE IF a.page_index # last_page
       THEN LET n == usize_add(a.page_index, 1, checks)
            IN IF n = Overflow
               THEN [app |-> a, fault |-> "attempt to add with overflow"]
               ELSE [app |-> [a EXCEPT !.page_index = n], fault |-> NoFault]
       ELSE [app |-> a, fault |-> NoFault]

-----------------------------------------------------------------------------
(* view.rs: what a redraw shows *)

\* the sequence the active tab pages through
selected(a) == IF a.tab_index = 0 THEN a.logs ELSE a.sudo_logs

\* &v[first..last] of Rust: [page, fault]
slice(v, first, last) ==
    IF first > last
    THEN [page |-> <<>>, fault |-> "slice index starts after its end"]
    ELSE IF last > Len(v)
    THEN [page |-> <<>>, fault |-> "range end index out of range for slice"]
    ELSE [page |-> SubSeq(v, first + 1, last), fault |-> NoFault]

\* get_page: [page, fault]
get_page(a, checks) ==
    LET first_log == usize_mul(a.page_index, a.logs_per_page, checks)
        last_page == usize_sub(a.num_pages, 1, checks)
        last_log ==
            IF a.page_index = last_page
            THEN usize_sub(a.num_logs, 1, checks)
            ELSE LET s == usize_add(first_log, a.logs_per_page, checks)
                 IN IF s = Overflow THEN Overflow ELSE usize_sub(s, 1, checks)
    IN IF first_log = Overflow \/ last_page = Overflow \/ last_log = Overflow
       THEN [page |-> <<>>, fault |-> "arithmetic overflow"]
       ELSE slice(selected(a), first_log, last_log)

recent_logs_to_get == 10

\* the user and command of one line of the Recent pane (view.rs:135-149): TRUE when
\* both find(..).unwrap() succeed
recent_parses(l) ==
    LET sudo_at == Find(l, "sudo:")
    IN /\ sudo_at # Overflow
       /\ Find(StrFrom(l, sudo_at + Len("sudo:")), ":") # Overflow
       /\ Find(l, command_text) # Overflow

\* create_recent_commands_paragraph: [page, fault]
create_recent_commands_paragraph(a, checks) ==
    LET recent_log_index == usize_sub(a.num_logs, recent_logs_to_get, checks)
    IN IF recent_log_index = Overflow
       THEN [page |-> <<>>, fault |-> "attempt to subtract with overflow"]
       ELSE IF recent_log_index > Len(a.sudo_logs)
       THEN [page |-> <<>>, fault |-> "range start index out of range for slice"]
       ELSE LET recent == SubSeq(a.sudo_logs, recent_log_index + 1, Len(a.sudo_logs))
            IN IF \E i \in 1..Len(recent) : ~recent_parses(recent[i])
               THEN [page |-> <<>>, fault |-> "called Option::unwrap on a None value"]
               ELSE [page |-> recent, fault |-> NoFault]

-----------------------------------------------------------------------------
(* view.rs: get_sudoers and create_spans *)

RECURSIVE split_from(_, _, _, _, _)
\* str::split on a one-character delimiter: the pieces of s from position i on,
\* cur being the piece under construction
split_from(s, d, i, cur, out) ==
    IF i > Len(s) THEN Append(out, cur)
    ELSE IF SubSeq(s, i, i) = d
    THEN split_from(s, d, i + 1, "", Append(out, cur))
    ELSE split_from(s, d, i + 1, cur \o SubSeq(s, i, i), out)

\* str::split_terminator: split, without a trailing empty piece
split_terminator(s, d) ==
    LET pieces == split_from(s, d, 1, "", <<>>)
    IN IF pieces[Len(pieces)] = ""
       THEN SubSeq(pieces, 1, Len(pieces) - 1)
       ELSE pieces

group_info_len == 3

\* the usernames one line of the group file adds (view.rs:262-272)
group_line_users(line) ==
    IF Contains(line, "sudo")
    THEN LET parsed_line == split_terminator(line, ":")
         IN IF Len(parsed_line) > group_info_len
            THEN split_terminator(parsed_line[4], ",")
            ELSE <<>>
    ELSE <<>>

RECURSIVE sudoers_from(_, _)
sudoers_from(lines, i) ==
    IF i > Len(lines) THEN <<>>
    ELSE group_line_users(lines[i]) \o sudoers_from(lines, i + 1)

\* get_sudoers over the lines of the group file
get_sudoers(lines) == sudoers_from(lines, 1)

sudo_text == "sudo"

Plain(t) == [text |-> t, style |-> "plain"]
Keyword(t) == [text |-> t, style |-> "keyword"]
Username(t) == [text |-> t, style |-> "username"]

\* one username of the loop of view.rs:215-233, on the accumulator
\* [log_index, spans, is_match, could_match, fault]
username_step(acc, username, word, l) ==
    IF acc.fault # NoFault THEN acc
    ELSE IF username = word
    THEN LET rest == StrFrom(l, acc.log_index)
             index == Find(rest, username)
         IN IF index = Overflow
            THEN [acc EXCEPT !.is_match = TRUE,
                             !.fault = "called Option::unwrap on a None value"]
            ELSE LET front == SubSeq(rest, 1, index)
                 IN [acc EXCEPT
                       !.is_match = TRUE,
                       !.log_index = acc.log_index + Len(front) + Len(username),
                       !.spans = (IF front # "" THEN Append(acc.spans, Plain(front))
                                  ELSE acc.spans) \o <<Username(username)>>]
    ELSE IF StartsWith(username, word)
    THEN [acc EXCEPT !.could_match = TRUE]
    ELSE acc

RECURSIVE usernames_from(_, _, _, _, _)
usernames_from(acc, users, i, word, l) ==
    IF i > Len(users) THEN acc
    ELSE usernames_from(username_step(acc, users[i], word, l), users, i + 1, word, l)

\* one character of the scan (view.rs:196-241), on the state
\* [log_index, is_match, word, spans, fault]
scan_char(st, l, ch, users) ==
    LET word == st.word \o ch
        acc0 == [log_index |-> st.log_index, spans |-> st.spans,
                 is_match |-> st.is_match, could_match |-> FALSE, fault |-> NoFault]
        acc ==
            IF sudo_text = word
            THEN LET rest == StrFrom(l, st.log_index)
                     index == Find(rest, sudo_text)
                 IN IF index = Overflow
                    THEN [acc0 EXCEPT !.fault = "called Option::unwrap on a None value"]
                    ELSE LET front == SubSeq(rest, 1, index)
                         IN [acc0 EXCEPT
                               !.is_match = TRUE,
                               !.log_index = st.log_index + Len(front) + Len(sudo_text),
                               !.spans = acc0.spans \o <<Plain(front), Keyword(sudo_text)>>]
            ELSE IF StartsWith(sudo_text, word)
            THEN [acc0 EXCEPT !.could_match = TRUE]
            ELSE usernames_from(acc0, users, 1, word, l)
        clear == ~acc.could_match \/ acc.is_match
    IN [log_index |-> acc.log_index,
        is_match |-> IF clear THEN FALSE ELSE acc.is_match,
        word |-> IF clear THEN "" ELSE word,
        spans |-> acc.spans,
        fault |-> acc.fault]

RECURSIVE scan_from(_, _, _, _)
scan_from(st, l, i, users) ==
    IF i > Len(l) \/ st.fault # NoFault THEN st
    ELSE scan_from(scan_char(st, l, SubSeq(l, i, i), users), l, i + 1, users)

\* the spans of one line (the body of the loop of view.rs:188-251): [spans, fault]
line_spans(l, users) ==
    IF Contains(l, sudo_text)
    THEN LET st == scan_from([log_index |-> 0, is_match |-> FALSE, word |-> "",
                              spans |-> <<>>, fault |-> NoFault], l, 1, users)
         IN IF st.fault # NoFault THEN [spans |-> st.spans, fault |-> st.fault]
            ELSE IF StrFrom(l, st.log_index) # ""
            THEN [spans |-> Append(st.spans, Plain(StrFrom(l, st.log_index))),
                  fault |-> NoFault]
            ELSE [spans |-> st.spans, fault |-> NoFault]
    ELSE [spans |-> <<Plain(l)>>, fault |-> NoFault]

RECURSIVE spans_from(_, _, _, _)
spans_from(lines, i, users, out) ==
    IF i > Len(lines) THEN [text_spans |-> out, fault |-> NoFault]
    ELSE LET r == line_spans(lines[i], users)
         IN IF r.fault # NoFault THEN [text_spans |-> out, fault |-> r.fault]
            ELSE spans_from(lines, i + 1, users, Append(out, r.spans))

\* create_spans on a page, with the usernames get_sudoers returned: [text_spans, fault]
create_spans(lines, users) == spans_from(lines, 1, users, <<>>)

-----------------------------------------------------------------------------
(* view.rs: the Frequency pane *)

\* app.commands.iter().collect() (view.rs:167): the (command, count) pairs in the
\* order the HashMap yields them, which its randomly seeded hasher decides
iter(cmds) ==
    LET n == Cardinality(DOMAIN cmds)
        orders == {o \in [1..n -> DOMAIN cmds] :
                      \A i \in 1..n : \A j \in 1..n : o[i] = o[j] => i = j}
    IN {[i \in 1..n |-> <<o[i], cmds[o[i]]>>] : o \in orders}

\* pr placed behind the pairs whose count is not smaller
insert_pair(sorted, pr) ==
    LET k == Cardinality({i \in 1..Len(sorted) : sorted[i][2] >= pr[2]})
    IN SubSeq(sorted, 1, k) \o <<pr>> \o SubSeq(sorted, k + 1, Len(sorted))

\* sorted_pairs.sort_by(|a, b| b.1.cmp(a.1)): a stable sort, count descending
RECURSIVE sort_by_count(_)
sort_by_count(pairs) ==
    IF pairs = <<>> THEN <<>>
    ELSE insert_pair(sort_by_count(SubSeq(pairs, 1, Len(pairs) - 1)),
                     pairs[Len(pairs)])

\* create_most_used_cmds_paragraph on the pairs iter() gave: one line per command,
\* the command and " (count)"
create_most_used_cmds_paragraph(pairs) ==
    LET sorted_pairs == sort_by_count(pairs)
    IN [i \in 1..Len(sorted_pairs) |->
          <<Plain(sorted_pairs[i][1]),
            Plain(" (" \o ToString(sorted_pairs[i][2]) \o ")")>>]

-----------------------------------------------------------------------------
(* The inputs of the event loop, and a redraw on them *)

\* a log file of n lines whose last m lines are sudo-related
GenLine(i, privileged) ==
    IF privileged
    THEN ToString(i) \o " sudo: bob : COMMAND=c" \o ToString(i % 3)
    ELSE ToString(i) \o " sshd: ok"

GenFile(n, m) == [i \in 1..n |-> GenLine(i, i > n - m)]

\* /etc/group as it is when the program starts, and after al joins the group
StableGroupFile == <<"sudo:x:27:bob">>
LoopGroupFiles == {StableGroupFile, <<"sudo:x:27:bob,al">>}

\* get_sudoers on each of them
LoopSudoers == [g \in LoopGroupFiles |-> get_sudoers(g)]

\* create_logs_paragraph (view.rs:98-110) with g the group file of the moment:
\* get_page, then create_spans, whose first statement reads g; the scan of the
\* page's lines that follows is the subject of SpecSpans (on the lines of GenFile
\* and the usernames of LoopGroupFiles it returns without a panic)
\* [page, fault, read, sudoers]
create_logs_paragraph(a, g, checks) ==
    LET p == get_page(a, checks)
    IN IF p.fault # NoFault
       THEN [page |-> <<>>, fault |-> p.fault, read |-> FALSE, sudoers |-> <<>>]
       ELSE [page |-> p.page, fault |-> NoFault, read |-> TRUE,
             sudoers |-> LoopSudoers[g]]

\* create_info_paragraph (view.rs:112-122): the fault of page_index + 1
create_info_paragraph(a, checks) ==
    IF usize_add(a.page_index, 1, checks) = Overflow
    THEN "attempt to add with overflow"
    ELSE NoFault

\* draw_ui: [page, fault, read, sudoers]; on the COMMANDS tab page is the Recent
\* pane; the Frequency pane, which computes no index, is the subject of SpecCommands
draw_ui(a, g, checks) ==
    IF a.tab_index \in {0, 1}
    THEN LET p == create_logs_paragraph(a, g, checks)
         IN IF p.fault # NoFault THEN p
            ELSE [p EXCEPT !.fault = create_info_paragraph(a, checks)]
    ELSE LET r == create_recent_commands_paragraph(a, checks)
         IN [page |-> r.page, fault |-> r.fault, read |-> FALSE, sudoers |-> <<>>]

\* the closure of terminal.draw (app.rs:48-64):
\* [app, set_start_page, page, fault, read, sudoers]
draw(a, ssp, height, g, checks) ==
    LET u == update_log_information(a, height)
    IN IF u.fault # NoFault
       THEN [app |-> u.app, set_start_page |-> ssp, page |-> <<>>, fault |-> u.fault,
             read |-> FALSE, sudoers |-> <<>>]
       ELSE LET s == start_page(u.app, ssp, checks)
            IN IF s.fault # NoFault
               THEN [app |-> s.app, set_start_page |-> ssp, page |-> <<>>,
                     fault |-> s.fault, read |-> FALSE, sudoers |-> <<>>]
               ELSE LET v == draw_ui(s.app, g, checks)
                    IN [app |-> s.app, set_start_page |-> s.set_start_page,
                        page |-> v.page, fault |-> v.fault, read |-> v.read,
                        sudoers |-> v.sudoers]

-----------------------------------------------------------------------------
(* Spec: the event loop of App::run *)

\* App::new reads no group file: nothing is loaded when the loop starts
LoopIdle ==
    /\ group_file = <<>>
    /\ log = ""
    /\ sudoers = <<>>
    /\ spans = <<>>

Init ==
    /\ \E n \in 0..MaxLogs : \E m \in 0..n : file = GenFile(n, m)
    /\ loaded = load_logs(file)
    /\ app = AppNew(loaded)
    /\ set_start_page = TRUE
    /\ pc = "draw"
    /\ key = "none"
    /\ fault = NoFault
    /\ page = <<>>
    /\ overflow_checks \in BOOLEAN
    /\ LoopIdle

\* terminal.draw with the display height and the group file of the moment,
\* the group file being one of files
DrawWith(files) ==
    /\ pc = "draw"
    /\ \E height \in 0..MaxHeight : \E g \in files :
         LET r == draw(app, set_start_page, height, g, overflow_checks)
         IN /\ app' = r.app
            /\ set_start_page' = r.set_start_page
            /\ page' = r.page
            /\ fault' = r.fault
            /\ pc' = IF r.fault = NoFault THEN "read" ELSE "panic"
            /\ group_file' = IF r.read THEN g ELSE group_file
            /\ sudoers' = IF r.read THEN r.sudoers ELSE sudoers
    /\ UNCHANGED <<key, overflow_checks, file, log, spans, loaded>>

\* a redraw of a run during which nobody edits /etc/group
Draw == DrawWith({StableGroupFile})

KeyUp ==
    /\ pc = "read"
    /\ key' = "Up"
    /\ app' = page_up(app)
    /\ pc' = "draw"
    /\ UNCHANGED <<set_start_page, fault, page, overflow_checks,
                   file, group_file, log, sudoers, spans, loaded>>

KeyDown ==
    /\ pc = "read"
    /\ LET r == page_down(app, overflow_checks)
       IN /\ r.app.page_index <= MaxPageIndex
          /\ key' = "Down"
          /\ app' = r.app
          /\ fault' = r.fault
          /\ pc' = IF r.fault = NoFault THEN "draw" ELSE "panic"
    /\ UNCHANGED <<set_start_page, page, overflow_checks,
                   file, group_file, log, sudoers, spans, loaded>>

KeyRight ==
    /\ pc = "read"
    /\ key' = "Right"
    /\ app' = next(app)
    /\ set_start_page' = TRUE
    /\ pc' = "draw"
    /\ UNCHANGED <<fault, page, overflow_checks, file, group_file, log, sudoers, spans, loaded>>

KeyLeft ==
    /\ pc = "read"
    /\ key' = "Left"
    /\ app' = prev(app)
    /\ set_start_page' = TRUE
    /\ pc' = "draw"
    /\ UNCHANGED <<fault, page, overflow_checks, file, group_file, log, sudoers, spans, loaded>>

\* KeyCode::Char('q')
KeyQuit ==
    /\ pc = "read"
    /\ key' = "q"
    /\ pc' = "exit"
    /\ UNCHANGED <<app, set_start_page, fault, page, overflow_checks,
                   file, group_file, log, sudoers, spans, loaded>>

\* any other key, or an event that is no key (a resize)
OtherEvent ==
    /\ pc = "read"
    /\ key' = "Other"
    /\ pc' = "draw"
    /\ UNCHANGED <<app, set_start_page, fault, page, overflow_checks,
                   file, group_file, log, sudoers, spans, loaded>>

Next ==
    \/ Draw
    \/ KeyUp
    \/ KeyDown
    \/ KeyRight
    \/ KeyLeft
    \/ KeyQuit
    \/ OtherEvent

Spec == Init /\ [][Next]_vars

-----------------------------------------------------------------------------
(* SpecGroup: the event loop while /etc/group is edited between redraws *)

InitGroup ==
    /\ \E n \in 0..MaxFileLines : \E m \in 0..n : file = GenFile(n, m)
    /\ loaded = load_logs(file)
    /\ app = AppNew(loaded)
    /\ set_start_page = TRUE
    /\ pc = "draw"
    /\ key = "none"
    /\ fault = NoFault
    /\ page = <<>>
    /\ overflow_checks \in BOOLEAN
    /\ LoopIdle

\* a redraw that finds /etc/group as it is at that moment
DrawReading == DrawWith(LoopGroupFiles)

NextGroup ==
    \/ DrawReading
    \/ KeyUp
    \/ KeyDown
    \/ KeyRight
    \/ KeyLeft
    \/ KeyQuit
    \/ OtherEvent

SpecGroup == InitGroup /\ [][NextGroup]_vars

-----------------------------------------------------------------------------
(* SpecLoad: App::new reads the log file line by line and builds the App *)

LogLineTexts ==
    {"sudo: bob : COMMAND=/bin/ls",
     "sudo: bob : COMMAND=/bin/cat",
     "sudo: pam_unix(sudo:session): session opened",
     "sudo: pam_unix(sudo:auth): COMMAND=/bin/ls",
     "sudo: bob : command not allowed",
     "sudo: bob : COMMAND=/bin/sh -c COMMAND=/bin/ls",
     "sshd: Accepted password for bob"}

LogFiles == UNION {[1..n -> LogLineTexts] : n \in 0..MaxFileLines}

InitLoad ==
    /\ file \in LogFiles
    /\ loaded = load_logs(<<>>)
    /\ app = NoApp
    /\ set_start_page = TRUE
    /\ pc = "load"
    /\ key = "none"
    /\ fault = NoFault
    /\ page = <<>>
    /\ overflow_checks \in BOOLEAN
    /\ LoopIdle

\* one turn of the loop of load_logs (app.rs:117-136)
ReadLine ==
    /\ pc = "load"
    /\ Len(loaded.logs) < Len(file)
    /\ loaded' = load_line(loaded, file[Len(loaded.logs) + 1])
    /\ fault' = loaded'.fault
    /\ pc' = IF loaded'.fault = NoFault THEN "load" ELSE "panic"
    /\ UNCHANGED <<app, set_start_page, key, page, overflow_checks,
                   file, group_file, log, sudoers, spans>>

\* the end of the file: load_logs returns and App::new builds the App
Construct ==
    /\ pc = "load"
    /\ Len(loaded.logs) = Len(file)
    /\ app' = AppNew(loaded)
    /\ pc' = "draw"
    /\ UNCHANGED <<set_start_page, key, fault, page, overflow_checks,
                   file, group_file, log, sudoers, spans, loaded>>

NextLoad ==
    \/ ReadLine
    \/ Construct

SpecLoad == InitLoad /\ [][NextLoad]_vars

-----------------------------------------------------------------------------
(* SpecSpans: create_spans on a page of one line *)

GroupRecords ==
    {"sudo:x:27:al",
     "sudoers:x:99:al,b",
     "adm:x:4:al",
     "adm:x:4:b,sudoer",
     "sudo:x:27"}

GroupFiles == UNION {[1..n -> GroupRecords] : n \in 0..MaxGroupLines}

Pieces == <<"s", "sudo", " ", "al", "b">>

RECURSIVE concat_pieces(_, _)
concat_pieces(ps, i) ==
    IF i > Len(ps) THEN "" ELSE Pieces[ps[i]] \o concat_pieces(ps, i + 1)

\* the lines put together from at most MaxPieces pieces
SpanLines ==
    {concat_pieces(ps, 1) :
        ps \in UNION {[1..n -> 1..Len(Pieces)] : n \in 0..MaxPieces}}

InitSpans ==
    /\ log \in SpanLines
    /\ group_file \in GroupFiles
    /\ sudoers = <<>>
    /\ spans = <<>>
    /\ file = <<>>
    /\ loaded = load_logs(<<>>)
    /\ app = NoApp
    /\ set_start_page = TRUE
    /\ pc = "spans"
    /\ key = "none"
    /\ fault = NoFault
    /\ page = <<log>>
    /\ overflow_checks = TRUE

\* create_spans(page): reads the group file, then scans each line of the page
CreateSpans ==
    /\ pc = "spans"
    /\ sudoers' = get_sudoers(group_file)
    /\ LET r == create_spans(page, sudoers')
       IN /\ spans' = r.text_spans
          /\ fault' = r.fault
          /\ pc' = IF r.fault = NoFault THEN "spanned" ELSE "panic"
    /\ UNCHANGED <<app, set_start_page, key, page, overflow_checks,
                   file, group_file, log, loaded>>

NextSpans == CreateSpans

SpecSpans == InitSpans /\ [][NextSpans]_vars

-----------------------------------------------------------------------------
(* SpecCommands: the Frequency pane of a constructed App *)

InitCommands ==
    /\ file \in LogFiles
    /\ loaded = load_logs(file)
    /\ loaded.fault = NoFault
    /\ app = [AppNew(loaded) EXCEPT !.tab_index = Len(titles) - 1]
    /\ set_start_page = TRUE
    /\ pc = "list"
    /\ key = "none"
    /\ fault = NoFault
    /\ page = <<>>
    /\ overflow_checks \in BOOLEAN
    /\ LoopIdle

\* the Frequency pane is built from the table in the order its HashMap iterates
MostUsedCmds ==
    /\ pc = "list"
    /\ \E pairs \in iter(app.commands) :
         spans' = create_most_used_cmds_paragraph(pairs)
    /\ pc' = "listed"
    /\ UNCHANGED <<app, set_start_page, key, fault, page, overflow_checks,
                   file, group_file, log, sudoers, loaded>>

NextCommands == MostUsedCmds

SpecCommands == InitCommands /\ [][NextCommands]_vars

-----------------------------------------------------------------------------
(* Properties of the event loop, checked under Spec *)

\* the last redraw ran to its end and the loop waits for an event
Redrawn == pc = "read"

\* a is paged as ceil(items / capacity) over the sequence of its tab
PagedAsCeil(a) ==
    LET n == Len(selected(a))
        q == a.logs_per_page
    IN /\ a.num_logs = n
       /\ a.num_pages * q >= n
       /\ (a.num_pages - 1) * q < n

\* the page of index i as get_page cuts it
page_at(a, i) == get_page([a EXCEPT !.page_index = i], overflow_checks).page

RECURSIVE pages_upto(_, _)
\* the pages 0 .. i of a, concatenated
pages_upto(a, i) ==
    IF i < 0 THEN <<>> ELSE pages_upto(a, i - 1) \o page_at(a, i)

\* C1: after every redraw, 0 <= page_index < num_pages whenever num_pages > 0
C1_PageIndexInRange ==
    (Redrawn /\ app.num_pages > 0) =>
        (0 <= app.page_index /\ app.page_index < app.num_pages)

\* C2: a non-final page is the slice of exactly logs_per_page items starting at
\* page_index * logs_per_page, and the pages in order concatenate to the sequence
C2_NonFinalPagesAreFull ==
    (Redrawn /\ app.tab_index \in {0, 1} /\ app.page_index < app.num_pages - 1) =>
        /\ page = SubSeq(selected(app),
                         app.page_index * app.logs_per_page + 1,
                         app.page_index * app.logs_per_page + app.logs_per_page)
        /\ pages_upto(app, app.num_pages - 1) = selected(app)

\* C3: the final page runs from page_index * logs_per_page up to the item count,
\* so it holds the last item of the sequence
C3_FinalPageReachesEnd ==
    (Redrawn /\ app.tab_index \in {0, 1} /\ app.page_index = app.num_pages - 1) =>
        /\ page = SubSeq(selected(app),
                         app.page_index * app.logs_per_page + 1, app.num_logs)
        /\ page # <<>>
        /\ page[Len(page)] = selected(app)[Len(selected(app))]

\* C4: after the recomputation of a redraw with a positive page capacity,
\* num_pages = ceil(num_logs / logs_per_page), which is 0 for no items
C4_NumPagesIsCeil ==
    (pc \in {"read", "panic"} /\ app.logs_per_page > 0) => PagedAsCeil(app)

C4_Witness ==
    /\ Redrawn
    /\ app.num_logs % app.logs_per_page # 0
    /\ app.num_logs > app.logs_per_page
    /\ app.num_pages = (app.num_logs \div app.logs_per_page) + 1

\* C5: page-up at page 0 and page-down at the last page change nothing of the App;
\* elsewhere they move page_index by exactly one, and neither faults or wraps
C5_PageKeysClamp ==
    [][/\ (pc = "read" /\ key' = "Up") =>
            /\ fault' = NoFault
            /\ app' = IF app.page_index = 0 THEN app
                      ELSE [app EXCEPT !.page_index = app.page_index - 1]
       /\ (pc = "read" /\ key' = "Down") =>
            /\ fault' = NoFault
            /\ app' = IF app.page_index = app.num_pages - 1 THEN app
                      ELSE [app EXCEPT !.page_index = app.page_index + 1]]_vars

\* page-down was taken on the only page: page_index was 0 = num_pages - 1 and stayed
C5_Witness ==
    /\ pc = "draw"
    /\ key = "Down"
    /\ app.num_pages = 1
    /\ app.page_index = 0

\* C6: at the first redraw after startup and after a next-tab or previous-tab,
\* page_index = num_pages - 1, num_pages being that of the newly selected tab's
\* sequence at the current height
C6_StartPageIsLast ==
    (Redrawn /\ key \in {"none", "Right", "Left"}) =>
        /\ app.page_index = app.num_pages - 1
        /\ PagedAsCeil(app)

C6_Witness ==
    /\ Redrawn
    /\ key = "Right"
    /\ app.tab_index = 1
    /\ Len(app.sudo_logs) < Len(app.logs)
    /\ app.num_pages >= 2
    /\ app.page_index = app.num_pages - 1

RECURSIVE next_times(_, _)
\* next applied n times
next_times(a, n) == IF n = 0 THEN a ELSE next(next_times(a, n - 1))

RECURSIVE prev_times(_, _)
prev_times(a, n) == IF n = 0 THEN a ELSE prev(prev_times(a, n - 1))

\* C7: tab_index < len(titles); next-tab is +1 and previous-tab is -1 modulo
\* len(titles); len(titles) of either return to the tab, and next-tab then
\* previous-tab is the identity
C7_TabsCycle ==
    /\ [](/\ app.tab_index < Len(app.titles)
          /\ next_times(app, Len(app.titles)) = app
          /\ prev_times(app, Len(app.titles)) = app
          /\ prev(next(app)) = app)
    /\ [][/\ (pc = "read" /\ key' = "Right") =>
               app'.tab_index = (app.tab_index + 1) % Len(app.titles)
          /\ (pc = "read" /\ key' = "Left") =>
               app'.tab_index =
                   (app.tab_index + Len(app.titles) - 1) % Len(app.titles)]_vars

\* previous-tab was taken on the first tab and wrapped to the last
C7_Witness ==
    /\ pc = "draw"
    /\ key = "Left"
    /\ app.tab_index = Len(app.titles) - 1

-----------------------------------------------------------------------------
(* Properties of the tokenizer, checked under SpecSpans *)

RECURSIVE join_texts(_, _)
\* the texts of the spans i .. of a line, left to right
join_texts(sp, i) ==
    IF i > Len(sp) THEN "" ELSE sp[i].text \o join_texts(sp, i + 1)

\* create_spans was called on the page <<log>>
SpansCalled == pc \in {"spanned", "panic"}

\* t holds neither the keyword nor a loaded username
CleanText(t) ==
    /\ ~Contains(t, sudo_text)
    /\ \A i \in 1..Len(sudoers) : ~Contains(t, sudoers[i])

\* C8: for every line and every username collection the group file can give,
\* tokenizing completes and the span texts concatenate to the line
C8_SpansReproduceLine ==
    SpansCalled =>
        /\ fault = NoFault
        /\ Len(spans) = 1
        /\ join_texts(spans[1], 1) = log

\* C9: a line P sudo S u T (u a loaded username; P, S, T non-empty and free of the
\* keyword and of the usernames) gives exactly the spans plain P, keyword sudo,
\* plain S, username u, plain T
C9_KeywordThenUsername ==
    SpansCalled =>
        \A k \in 1..Len(sudoers) : \A a \in 1..Len(log) : \A b \in 1..Len(log) :
            LET u == sudoers[k]
                P == SubSeq(log, 1, a)
                K == SubSeq(log, a + 1, a + Len(sudo_text))
                S == SubSeq(log, a + Len(sudo_text) + 1, a + Len(sudo_text) + b)
                U == SubSeq(log, a + Len(sudo_text) + b + 1,
                            a + Len(sudo_text) + b + Len(u))
                T == StrFrom(log, a + Len(sudo_text) + b + Len(u))
            IN (/\ a + Len(sudo_text) + b + Len(u) < Len(log)
                /\ K = sudo_text
                /\ U = u
                /\ CleanText(P) /\ CleanText(S) /\ CleanText(T)) =>
                   /\ fault = NoFault
                   /\ spans = <<(<<Plain(P), Keyword(sudo_text), Plain(S),
                                   Username(u), Plain(T)>>)>>

-----------------------------------------------------------------------------
(* Properties of the ingestion, checked under SpecLoad *)

\* the line contains "sudo:" and does not contain "pam_unix"
IsPrivilegedEvent(l) == Contains(l, "sudo:") /\ ~Contains(l, "pam_unix")

\* load_logs returned and the App is built
Ingested == pc = "draw"

\* C10: after ingestion, logs holds every line of the file in file order, and
\* sudo_logs is the subsequence of the lines with "sudo:" and without "pam_unix"
C10_IngestionKeepsOrder ==
    Ingested =>
        /\ app.logs = file
        /\ app.sudo_logs = SelectSeq(file, IsPrivilegedEvent)

C10_Witness ==
    /\ Ingested
    /\ Len(file) = 3
    /\ IsPrivilegedEvent(file[1])
    /\ Contains(file[2], "sudo:") /\ Contains(file[2], "pam_unix")
    /\ IsPrivilegedEvent(file[3])
    /\ file[1] # file[3]
    /\ app.sudo_logs = <<file[1], file[3]>>

\* the text of l after its first "COMMAND="
CommandAfterMarker(l) ==
    LET at == CHOOSE i \in 1..Len(l) :
                  /\ SubSeq(l, i, i + Len(command_text) - 1) = command_text
                  /\ \A j \in 1..(i - 1) :
                         SubSeq(l, j, j + Len(command_text) - 1) # command_text
    IN SubSeq(l, at + Len(command_text), Len(l))

\* the positions of the privileged events of a file
EventsOf(f) == {i \in 1..Len(f) : IsPrivilegedEvent(f[i])}

RECURSIVE sum_counts(_, _)
\* the sum of the counts of table t over the keys ks
sum_counts(t, ks) ==
    IF ks = {} THEN 0
    ELSE LET k == CHOOSE x \in ks : TRUE
         IN t[k] + sum_counts(t, ks \ {k})

\* C11: after ingestion the count of every command c is the number of privileged
\* events whose text after the first "COMMAND=" is c (no key for 0), whatever the
\* order of the lines, so the counts sum to the number of privileged events
C11_CommandCounts ==
    Ingested =>
        LET cmds == {CommandAfterMarker(file[i]) : i \in EventsOf(file)}
        IN /\ DOMAIN app.commands = cmds
           /\ \A c \in cmds :
                  app.commands[c] =
                      Cardinality({i \in EventsOf(file) :
                                      CommandAfterMarker(file[i]) = c})
           /\ \A p \in Permutations(1..Len(file)) :
                  load_logs([i \in 1..Len(file) |-> file[p[i]]]).commands
                      = app.commands
           /\ sum_counts(app.commands, DOMAIN app.commands)
                  = Cardinality(EventsOf(file))

\* two events with one command, a third with another one
C11_Witness ==
    /\ Ingested
    /\ Len(file) = 3
    /\ file[1] # file[2]
    /\ file[1] = file[3]
    /\ EventsOf(file) = {1, 2, 3}
    /\ app.commands[CommandAfterMarker(file[1])] = 2
    /\ app.commands[CommandAfterMarker(file[2])] = 1

\* C12: a line with "sudo:", without "pam_unix" and without "COMMAND=" is skipped:
\* ingestion does not abort, the line leaves the frequency table unchanged, and
\* every line of the file is ingested
C12_MalformedLineSkipped ==
    /\ fault = NoFault
    /\ pc # "panic"
    /\ (pc = "load" /\ Len(loaded.logs) > 0
          /\ IsPrivilegedEvent(file[Len(loaded.logs)])
          /\ ~Contains(file[Len(loaded.logs)], command_text)) =>
             loaded.commands
                 = load_logs(SubSeq(file, 1, Len(loaded.logs) - 1)).commands
    /\ Ingested => app.logs = file

-----------------------------------------------------------------------------
(* Properties of the loaded usernames, checked under SpecSpans *)

\* the elements of a sequence
Range(q) == {q[i] : i \in 1..Len(q)}

\* the colon-delimited fields of a record of the group file
FieldsOf(r) == split_terminator(r, ":")

\* the records whose group-name field contains "sudo" and that have a member field
SudoRecords(g) ==
    {r \in Range(g) : Len(FieldsOf(r)) >= 4 /\ Contains(FieldsOf(r)[1], "sudo")}

\* C13: the loaded usernames are exactly the comma-separated members (4th field)
\* of the records with at least 4 fields whose 1st field contains "sudo"; any
\* other record contributes no username
C13_SudoersAreGroupMembers ==
    SpansCalled =>
        Range(sudoers) =
            UNION {Range(split_terminator(FieldsOf(r)[4], ",")) :
                       r \in SudoRecords(group_file)}

\* C17: the loaded collection holds each username at most once
C17_UsernamesUnique ==
    SpansCalled =>
        \A i \in 1..Len(sudoers) : \A j \in 1..Len(sudoers) :
            sudoers[i] = sudoers[j] => i = j

-----------------------------------------------------------------------------
(* Faults of the event loop, checked under Spec *)

\* C14: a redraw at display height 0 completes without a division by zero and
\* leaves num_pages = 0
C14_ZeroHeightGuarded ==
    (pc \in {"read", "panic", "exit"} /\ app.logs_per_page = 0) =>
        /\ fault = NoFault
        /\ app.num_pages = 0

\* C15: page-up, page-down, next-tab, previous-tab and the start-page reset of the
\* redraw that follows complete without a fault, also when the selected sequence
\* is empty: num_pages - 1 is never computed on num_pages = 0
C15_NavigationTotal ==
    /\ (pc = "draw" /\ key \in {"Up", "Down", "Right", "Left"}) => fault = NoFault
    /\ (pc \in {"read", "panic"} /\ app.logs_per_page > 0 /\ app.num_pages = 0) =>
           /\ fault = NoFault
           /\ app.page_index < UsizeMod - 1

-----------------------------------------------------------------------------
(* The group file during a run, checked under SpecGroup *)

\* C16: the group file is loaded once before the first redraw and no redraw reads
\* it again: once usernames are loaded, a redraw leaves the file that was read and
\* the usernames used for highlighting as they are
C16_GroupFileReadOnce ==
    [][(pc = "draw" /\ group_file # <<>>) =>
           (group_file' = group_file /\ sudoers' = sudoers)]_vars

-----------------------------------------------------------------------------
(* What a step of the event loop leaves alone, checked under Spec *)

\* C18: a redraw changes only logs_per_page, num_logs and num_pages, and page_index
\* only at the first redraw or the first one after a tab change; no step changes
\* logs, sudo_logs, commands or titles; page-up and page-down keep tab_index
C18_RedrawFrame ==
    [][/\ app'.logs = app.logs
       /\ app'.sudo_logs = app.sudo_logs
       /\ app'.commands = app.commands
       /\ app'.titles = app.titles
       /\ pc = "draw" =>
            /\ [app' EXCEPT !.logs_per_page = app.logs_per_page,
                            !.num_logs = app.num_logs,
                            !.num_pages = app.num_pages,
                            !.page_index = app.page_index] = app
            /\ key \in {"Up", "Down", "Other"} => app'.page_index = app.page_index
       /\ (pc = "read" /\ key' \in {"Up", "Down"}) =>
            app'.tab_index = app.tab_index]_vars

\* a redraw after page-up recomputed the paging of a non-empty log and left the
\* page before the last one selected
C18_Witness ==
    /\ Redrawn
    /\ key = "Up"
    /\ app.commands # <<>>
    /\ app.num_pages > 1
    /\ app.page_index = app.num_pages - 2

-----------------------------------------------------------------------------
(* The scan without usernames, checked under SpecSpans *)

\* the positions of l at which an occurrence of t starts
Occurrences(l, t) ==
    {i \in 1..Len(l) : i + Len(t) - 1 <= Len(l) /\ SubSeq(l, i, i + Len(t) - 1) = t}

\* the keyword spans among sp
KeywordSpans(sp) == {i \in 1..Len(sp) : sp[i].style = "keyword"}

\* C19: with no username loaded, the scan restarts a failed candidate at the current
\* character, so the keyword spans of a line are as many as the occurrences of
\* "sudo" in it
C19_KeywordPerOccurrence ==
    (pc = "spanned" /\ sudoers = <<>>) =>
        Cardinality(KeywordSpans(spans[1])) = Cardinality(Occurrences(log, sudo_text))

-----------------------------------------------------------------------------
(* The order of the Frequency pane, checked under SpecCommands *)

\* the position in the file of the first privileged event that ran command c
FirstSeenAt(c) ==
    CHOOSE i \in EventsOf(file) :
        /\ CommandAfterMarker(file[i]) = c
        /\ \A j \in EventsOf(file) : CommandAfterMarker(file[j]) = c => i <= j

\* C20: the listing holds each command of the table once with its count, counts
\* descending, and commands of equal count in the order they were first seen in the
\* log, so the listing is a function of the log
C20_ListingStable ==
    pc = "listed" =>
        /\ Len(spans) = Cardinality(DOMAIN app.commands)
        /\ {spans[i][1].text : i \in 1..Len(spans)} = DOMAIN app.commands
        /\ \A i \in 1..Len(spans) :
               spans[i][2].text = " (" \o ToString(app.commands[spans[i][1].text]) \o ")"
        /\ \A i \in 1..Len(spans) : \A j \in (i + 1)..Len(spans) :
               LET ci == spans[i][1].text
                   cj == spans[j][1].text
               IN \/ app.commands[ci] > app.commands[cj]
                  \/ /\ app.commands[ci] = app.commands[cj]
                     /\ FirstSeenAt(ci) < FirstSeenAt(cj)

-----------------------------------------------------------------------------
(* The slices a redraw takes, checked under Spec *)

\* the panics of a slice whose bounds are not first <= last <= length
SliceFaults ==
    {"slice index starts after its end", "range end index out of range for slice",
     "range start index out of range for slice"}

\* C21: in every redraw of the ALL or SUDO tab, whatever keys and display heights
\* came before, get_page's bounds satisfy first <= last <= length of the selected
\* sequence: the redraw computes them without overflow and its slice is in range
C21_PageSliceInRange ==
    (pc = "panic" /\ app.tab_index \in {0, 1}) =>
        fault \notin SliceFaults \cup {"arithmetic overflow"}

-----------------------------------------------------------------------------
(* The Recent pane, checked under Spec *)

\* the last k items of q, or all of q when it has fewer
LastOf(q, k) == SubSeq(q, IF Len(q) > k THEN Len(q) - k + 1 ELSE 1, Len(q))

\* C22: a redraw of the COMMANDS tab at a positive height completes for every
\* number n of privileged events and lists the last min(10, n) of them in file order
C22_RecentListsLastTen ==
    (pc \in {"read", "panic"} /\ app.tab_index = 2 /\ app.logs_per_page > 0) =>
        /\ fault = NoFault
        /\ page = LastOf(SelectSeq(file, IsPrivilegedEvent), recent_logs_to_get)

====
